---------------------------- MODULE Spec2Model ----------------------------
(***************************************************************************)
(* A model of greedSimulations.py: the dice game engine (runSimulation),   *)
(* the batch runner (runSimulationBlock) and the aggregator                *)
(* (testStrategies).                                                       *)
(*                                                                         *)
(* Strategy objects live in a small heap `strat` so that two parameters of *)
(* runSimulation may name the same object.  Python floats are modelled as  *)
(* exact fractions <<numerator, denominator>>.                             *)
(***************************************************************************)
EXTENDS Integers, Sequences, FiniteSets, TLC

(* ----- bounds of the model ----- *)

\* largest winning_score passed to runSimulation
MaxWinningScore == 3

\* largest number of games asked of runSimulationBlock
MaxGames == 2

(* ----- program constants ----- *)

\* the reference value of the margin (lines 259, 264)
MarginBase == 100

\* the faces of the die, random.randint(1, 6) (line 55)
DieFaces == 1..6

VARIABLES
    strat,            \* heap of strategy objects: id -> fields (lines 128-142)
    strategy_1,       \* id of the object passed as strategy_1
    strategy_2,       \* id of the object passed as strategy_2
    winning_score,    \* parameter winning_score
    games,            \* parameter games of runSimulationBlock
    pc,               \* position in runSimulationBlock / runSimulation
    current_moves,    \* local current_moves of runSimulation
    roll,             \* local roll of runSimulation (0: not yet assigned)
    results_list,     \* local results_list of runSimulationBlock
    results,          \* <<>> until runSimulationBlock returns, then <<dict>>
    last_step,        \* history: what the last loop iteration of the turn did
    turn_start,       \* history: the mover's current_score when its turn began
    turn_rolls,       \* history: the number of rolls made so far in the turn
    reached,          \* history: per game, <<strategy_1 reached, strategy_2 reached>>
    decision_call,    \* history: <<opponent_score, current_rolls>> passed to
                      \* getDecision by the last loop iteration, <<>> if none
    match_data,       \* the files of ./match_data: file -> results dictionary
    unread,           \* the files testStrategies has not read yet
    aggregate_results,\* local aggregate_results of testStrategies
    saved,            \* <<>> until testStrategies saves and returns, then <<dict>>
    filename,         \* loop variable filename of testStrategies (0: none yet)
    current_results,  \* local current_results of testStrategies
    before,           \* history: aggregate_results before the last update
    sim               \* the calls of runSimulation that run at the same time:
                      \* call -> its parameters, locals and position

\* the variables of testStrategies
aggVars == <<match_data, unread, aggregate_results, saved, filename,
             current_results, before>>

\* the variables of runSimulationBlock and runSimulation
blockVars == <<strat, strategy_1, strategy_2, winning_score, games, current_moves,
               roll, results_list, results, last_step, turn_start, turn_rolls,
               reached, decision_call>>

vars == <<strat, strategy_1, strategy_2, winning_score, games, pc, current_moves,
          roll, results_list, results, last_step, turn_start, turn_rolls, reached,
          decision_call, match_data, unread, aggregate_results, saved, filename,
          current_results, before, sim>>

(* ----- helper functions ----- *)

RECURSIVE sumList(_)
sumList(sum_list) ==
    IF sum_list = <<>> THEN 0
    ELSE sum_list[1] + sumList(Tail(sum_list))

\* the results rollDie can give
rollDie == DieFaces

Abs(n) == IF n < 0 THEN -n ELSE n

RECURSIVE GCD(_, _)
GCD(a, b) == IF b = 0 THEN a ELSE GCD(b, a % b)

\* the value of n / d (d > 0) as a fraction in lowest terms
Fraction(n, d) ==
    LET g == GCD(Abs(n), d) IN <<n \div g, d \div g>>

(* ----- base strategy functions: the set of values a call can return ----- *)

\* a sequence holds v
InList(v, list) == \E k \in 1..Len(list) : list[k] = v

randomDecision(ws, current_score, opponent_score, current_rolls, constant_parameters) ==
    {TRUE, FALSE}

untilValue(ws, current_score, opponent_score, current_rolls, constant_parameters) ==
    IF sumList(current_rolls) >= constant_parameters[1] THEN {TRUE} ELSE {FALSE}

\* constant_parameters[0] of the source, a list of rolls, is constant_parameters here
untilRoll(ws, current_score, opponent_score, current_rolls, constant_parameters) ==
    IF InList(current_rolls[Len(current_rolls)], constant_parameters)
    THEN {FALSE} ELSE {TRUE}

alwaysTrue(ws, current_score, opponent_score, current_rolls, constant_parameters) ==
    {TRUE}

alwaysFalse(ws, current_score, opponent_score, current_rolls, constant_parameters) ==
    {FALSE}

agroAfter(ws, current_score, opponent_score, current_rolls, constant_parameters) ==
    IF (ws - current_score) <= constant_parameters[1] THEN {TRUE}
    ELSE randomDecision(ws, current_score, opponent_score, current_rolls,
                        constant_parameters)

agroAfterOpponent(ws, current_score, opponent_score, current_rolls, constant_parameters) ==
    IF (ws - opponent_score) <= constant_parameters[1] THEN {TRUE}
    ELSE randomDecision(ws, current_score, opponent_score, current_rolls,
                        constant_parameters)

beatOpponent(ws, current_score, opponent_score, current_rolls, constant_parameters) ==
    IF current_score < opponent_score THEN {TRUE}
    ELSE randomDecision(ws, current_score, opponent_score, current_rolls,
                        constant_parameters)

\* decisionFunction(decision_function, constant_parameters)
decisionFunction(f, cp) == [decision_function |-> f, constant_parameters |-> cp]

\* decisionFunction.getDecision: call the stored function with the stored parameters
decisionFunction_getDecision(df, ws, current_score, opponent_score, current_rolls) ==
    LET cp == df.constant_parameters IN
    CASE df.decision_function = "randomDecision" ->
            randomDecision(ws, current_score, opponent_score, current_rolls, cp)
      [] df.decision_function = "untilValue" ->
            untilValue(ws, current_score, opponent_score, current_rolls, cp)
      [] df.decision_function = "untilRoll" ->
            untilRoll(ws, current_score, opponent_score, current_rolls, cp)
      [] df.decision_function = "alwaysTrue" ->
            alwaysTrue(ws, current_score, opponent_score, current_rolls, cp)
      [] df.decision_function = "alwaysFalse" ->
            alwaysFalse(ws, current_score, opponent_score, current_rolls, cp)
      [] df.decision_function = "agroAfter" ->
            agroAfter(ws, current_score, opponent_score, current_rolls, cp)
      [] df.decision_function = "agroAfterOpponent" ->
            agroAfterOpponent(ws, current_score, opponent_score, current_rolls, cp)
      [] df.decision_function = "beatOpponent" ->
            beatOpponent(ws, current_score, opponent_score, current_rolls, cp)

\* strategy.getDecision: the object's own winning_score and current_score are passed
getDecision(self, opponent_score, current_rolls) ==
    decisionFunction_getDecision(self.decision_function, self.winning_score,
                                 self.current_score, opponent_score, current_rolls)

\* strategy.__init__
strategy(name, decision_function) ==
    [name |-> name, winning_score |-> 0, current_score |-> 0,
     decision_function |-> decision_function]

\* the decision functions of the strategies the source defines (no strategy
\* uses agroAfterOpponent), their parameters scaled to the winning scores of
\* the model
DecisionFunctions ==
    {decisionFunction("randomDecision", <<>>),
     decisionFunction("untilValue", <<2>>),
     decisionFunction("untilValue", <<3>>),
     decisionFunction("untilRoll", <<3, 4, 5, 6>>),
     decisionFunction("agroAfter", <<1>>),
     decisionFunction("alwaysTrue", <<>>),
     decisionFunction("alwaysFalse", <<>>),
     decisionFunction("beatOpponent", <<>>)}


\* the names given to strategy objects
StrategyNames == {"strategy_A", "strategy_B"}

\* the strategy objects of the heap
StrategyIds == {1, 2}

(* ----- runSimulation ----- *)

\* a reset that forgets the score
ResetStrategyKeepScore(self, ws) ==
    [self EXCEPT !.winning_score = ws]

\* lines 197-201: one strategy's scores reset, its winning score updated
ResetStrategy(self, ws) ==
    [self EXCEPT !.winning_score = ws, !.current_score = 0]

\* a loop condition that does not count the pending sum
LoopConditionOnBankedOnly(current_score, moves, ws) ==
    current_score < ws

\* lines 208, 231: the condition of the roll loop
LoopCondition(current_score, moves, ws) ==
    current_score + sumList(moves) < ws

\* a bust that does not discard the moves
BustMovesKept(moves) == moves

\* lines 213, 236: the moves left by a roll of 1
BustMoves(moves) == <<>>

\* an update that forgets the banked score
UpdateScoreOverwrite(current_score, moves) == sumList(moves)

\* lines 222-223, 245-246: the score after the turn
UpdateScore(current_score, moves) == current_score + sumList(moves)

\* a check that misses a score equal to the winning score
HasWonStrict(current_score, ws) == current_score > ws

\* lines 226, 249: the check that the mover has won
HasWon(current_score, ws) == current_score >= ws

\* a margin measured from the winning score
MarginOfWinningScore(loser_score, ws) == ws - loser_score

\* lines 259, 264: the margin of a game
Margin(loser_score, ws) == MarginBase - loser_score

\* a result that names strategy_1 only when it is beyond the winning score
GameResultStrict(s1, s2, ws) ==
    IF s1.current_score > ws
    THEN <<s1.name, MarginBase - s2.current_score>>
    ELSE <<s2.name, MarginBase - s1.current_score>>

\* lines 253-266: [winner, margin]
GameResult(s1, s2, ws) ==
    IF s1.current_score >= ws
    THEN <<s1.name, Margin(s2.current_score, ws)>>
    ELSE <<s2.name, Margin(s1.current_score, ws)>>

\* the object that moves in turn p, and its opponent's
Mover(p) == IF p = 1 THEN strategy_1 ELSE strategy_2
Opponent(p) == IF p = 1 THEN strategy_2 ELSE strategy_1

WhilePc(p) == IF p = 1 THEN "while_1" ELSE "while_2"
BankPc(p) == IF p = 1 THEN "bank_1" ELSE "bank_2"

\* lines 197-207: both strategies reset, the first turn begins
Reset ==
    /\ pc = "reset"
    /\ strat' = [id \in StrategyIds |->
                    IF id \in {strategy_1, strategy_2}
                    THEN ResetStrategy(strat[id], winning_score)
                    ELSE strat[id]]
    /\ current_moves' = <<>>
    /\ roll' = 0
    /\ last_step' = "none"
    /\ turn_start' = strat'[strategy_1].current_score
    /\ turn_rolls' = 0
    /\ decision_call' = <<>>
    /\ pc' = "while_1"
    /\ UNCHANGED <<strategy_1, strategy_2, winning_score, games, results_list,
                   results, reached>>
    /\ UNCHANGED aggVars
    /\ UNCHANGED sim

\* lines 208, 231: the loop condition fails, the turn goes on to its bank
LoopExit(p) ==
    /\ pc = WhilePc(p)
    /\ ~LoopCondition(strat[Mover(p)].current_score, current_moves, winning_score)
    /\ pc' = BankPc(p)
    /\ UNCHANGED <<strat, strategy_1, strategy_2, winning_score, games,
                   current_moves, roll, results_list, results, last_step,
                   turn_start, turn_rolls, reached, decision_call>>
    /\ UNCHANGED aggVars
    /\ UNCHANGED sim

\* a loop iteration that leaves the loop when the decision is true
LoopRollStopsOnTrue(p, r) ==
    /\ pc = WhilePc(p)
    /\ LoopCondition(strat[Mover(p)].current_score, current_moves, winning_score)
    /\ roll' = r
    /\ turn_rolls' = turn_rolls + 1
    /\ IF r = 1
       THEN /\ current_moves' = BustMoves(current_moves)
            /\ last_step' = "bust"
            /\ decision_call' = <<>>
            /\ pc' = BankPc(p)
       ELSE /\ current_moves' = Append(current_moves, r)
            /\ decision_call' = <<strat[Opponent(p)].current_score,
                                  current_moves'>>
            /\ \E decision \in getDecision(strat[Mover(p)],
                                           strat[Opponent(p)].current_score,
                                           current_moves') :
                  IF decision
                  THEN last_step' = "stop" /\ pc' = BankPc(p)
                  ELSE last_step' = "continue" /\ pc' = WhilePc(p)
    /\ UNCHANGED <<strat, strategy_1, strategy_2, winning_score, games,
                   results_list, results, turn_start, reached>>
    /\ UNCHANGED aggVars
    /\ UNCHANGED sim

\* a loop iteration that asks for the decision before it looks at the roll
LoopRollDecidesFirst(p, r) ==
    /\ pc = WhilePc(p)
    /\ LoopCondition(strat[Mover(p)].current_score, current_moves, winning_score)
    /\ roll' = r
    /\ turn_rolls' = turn_rolls + 1
    /\ decision_call' = <<strat[Opponent(p)].current_score,
                          Append(current_moves, r)>>
    /\ \E decision \in getDecision(strat[Mover(p)],
                                   strat[Opponent(p)].current_score,
                                   Append(current_moves, r)) :
          IF r = 1
          THEN /\ current_moves' = BustMoves(current_moves)
               /\ last_step' = "bust"
               /\ pc' = BankPc(p)
          ELSE /\ current_moves' = Append(current_moves, r)
               /\ IF ~decision
                  THEN last_step' = "stop" /\ pc' = BankPc(p)
                  ELSE last_step' = "continue" /\ pc' = WhilePc(p)
    /\ UNCHANGED <<strat, strategy_1, strategy_2, winning_score, games,
                   results_list, results, turn_start, reached>>
    /\ UNCHANGED aggVars
    /\ UNCHANGED sim

\* lines 208-220, 231-243: one iteration of the roll loop with the die showing r
LoopRoll(p, r) ==
    /\ pc = WhilePc(p)
    /\ LoopCondition(strat[Mover(p)].current_score, current_moves, winning_score)
    /\ roll' = r
    /\ turn_rolls' = turn_rolls + 1
    /\ IF r = 1
       THEN /\ current_moves' = BustMoves(current_moves)
            /\ last_step' = "bust"
            /\ decision_call' = <<>>
            /\ pc' = BankPc(p)
       ELSE /\ current_moves' = Append(current_moves, r)
            /\ decision_call' = <<strat[Opponent(p)].current_score,
                                  current_moves'>>
            /\ \E decision \in getDecision(strat[Mover(p)],
                                           strat[Opponent(p)].current_score,
                                           current_moves') :
                  IF ~decision
                  THEN last_step' = "stop" /\ pc' = BankPc(p)
                  ELSE last_step' = "continue" /\ pc' = WhilePc(p)
    /\ UNCHANGED <<strat, strategy_1, strategy_2, winning_score, games,
                   results_list, results, turn_start, reached>>
    /\ UNCHANGED aggVars
    /\ UNCHANGED sim

\* a bank without the check after strategy_1's turn
BankUncheckedFirst(p) ==
    /\ pc = BankPc(p)
    /\ strat' = [strat EXCEPT ![Mover(p)].current_score =
                                  @ + sumList(current_moves)]
    /\ IF p = 2 /\ strat'[Mover(p)].current_score >= winning_score
       THEN /\ pc' = "result"
            /\ UNCHANGED <<current_moves, last_step, turn_start, turn_rolls,
                           decision_call>>
       ELSE /\ pc' = WhilePc(3 - p)
            /\ current_moves' = <<>>
            /\ last_step' = "none"
            /\ decision_call' = <<>>
            /\ turn_rolls' = 0
            /\ turn_start' = strat'[Mover(3 - p)].current_score
    /\ UNCHANGED <<strategy_1, strategy_2, winning_score, games, roll,
                   results_list, results, reached>>
    /\ UNCHANGED aggVars
    /\ UNCHANGED sim

\* lines 222-230, 245-250 and 204-207: the mover's score is updated; the game is
\* over if it has won, otherwise the other strategy's turn begins
Bank(p) ==
    /\ pc = BankPc(p)
    /\ strat' = [strat EXCEPT ![Mover(p)].current_score =
                                  UpdateScore(@, current_moves)]
    /\ IF HasWon(strat'[Mover(p)].current_score, winning_score)
       THEN /\ pc' = "result"
            /\ UNCHANGED <<current_moves, last_step, turn_start, turn_rolls,
                           decision_call>>
       ELSE /\ pc' = WhilePc(3 - p)
            /\ current_moves' = <<>>
            /\ last_step' = "none"
            /\ decision_call' = <<>>
            /\ turn_rolls' = 0
            /\ turn_start' = strat'[Mover(3 - p)].current_score
    /\ UNCHANGED <<strategy_1, strategy_2, winning_score, games, roll,
                   results_list, results, reached>>
    /\ UNCHANGED aggVars
    /\ UNCHANGED sim

Strategy1Loop == LoopExit(1) \/ \E r \in rollDie : LoopRoll(1, r)
Strategy1Bank == Bank(1)
Strategy2Loop == LoopExit(2) \/ \E r \in rollDie : LoopRoll(2, r)
Strategy2Bank == Bank(2)

\* lines 252-266 and 318: the result is returned and appended to results_list
Return ==
    /\ pc = "result"
    /\ results_list' = Append(results_list,
                              GameResult(strat[strategy_1], strat[strategy_2],
                                         winning_score))
    /\ reached' = Append(reached,
                         <<strat[strategy_1].current_score >= winning_score,
                           strat[strategy_2].current_score >= winning_score>>)
    /\ current_moves' = <<>>
    /\ roll' = 0
    /\ last_step' = "none"
    /\ turn_rolls' = 0
    /\ decision_call' = <<>>
    /\ pc' = "for_games"
    /\ UNCHANGED <<strat, strategy_1, strategy_2, winning_score, games, results,
                   turn_start>>
    /\ UNCHANGED aggVars
    /\ UNCHANGED sim

(* ----- runSimulationBlock ----- *)

\* a tabulation that gives the loser the margin without negating it
RECURSIVE TabulateNotNegated(_, _, _)
TabulateNotNegated(list, n, name_1) ==
    IF n = 0
    THEN [wins |-> <<0, 0>>, margins |-> <<<<>>, <<>>>>]
    ELSE LET t == TabulateNotNegated(list, n - 1, name_1)
             result == list[n]
         IN  IF result[1] = name_1
             THEN [wins |-> <<t.wins[1] + 1, t.wins[2]>>,
                   margins |-> <<Append(t.margins[1], result[2]),
                                 Append(t.margins[2], result[2])>>]
             ELSE [wins |-> <<t.wins[1], t.wins[2] + 1>>,
                   margins |-> <<Append(t.margins[1], result[2]),
                                 Append(t.margins[2], result[2])>>]

\* lines 340-352: the tabulation of results_list[1..n]
RECURSIVE Tabulate(_, _, _)
Tabulate(list, n, name_1) ==
    IF n = 0
    THEN [wins |-> <<0, 0>>, margins |-> <<<<>>, <<>>>>]
    ELSE LET t == Tabulate(list, n - 1, name_1)
             result == list[n]
         IN  IF result[1] = name_1
             THEN [wins |-> <<t.wins[1] + 1, t.wins[2]>>,
                   margins |-> <<Append(t.margins[1], result[2]),
                                 Append(t.margins[2], -result[2])>>]
             ELSE [wins |-> <<t.wins[1], t.wins[2] + 1>>,
                   margins |-> <<Append(t.margins[1], -result[2]),
                                 Append(t.margins[2], result[2])>>]

\* lines 359-362: the average of a margin list can be computed
AverageDefined(margins) == Len(margins) # 0

\* lines 359-362: sumList(margins) / len(margins)
Average(margins) == Fraction(sumList(margins), Len(margins))

\* lines 324-364: the results dictionary
ResultsDict(list, n, ws, name_1, name_2) ==
    LET t == Tabulate(list, Len(list), name_1) IN
    [game_settings |-> [game_count |-> n, winning_score |-> ws,
                        strategy_1 |-> name_1, strategy_2 |-> name_2],
     win_count |-> t.wins,
     win_margins |-> t.margins,
     average_margins |-> <<Average(t.margins[1]), Average(t.margins[2])>>]

\* lines 315-317: the next game is started, or the games are over
ForGames ==
    /\ pc = "for_games"
    /\ pc' = IF Len(results_list) < games THEN "reset" ELSE "assemble"
    /\ UNCHANGED <<strat, strategy_1, strategy_2, winning_score, games,
                   current_moves, roll, results_list, results, last_step,
                   turn_start, turn_rolls, reached, decision_call>>
    /\ UNCHANGED aggVars
    /\ UNCHANGED sim

\* an assembly that gives an empty margin list the average 0
AssembleGuarded ==
    /\ pc = "assemble"
    /\ LET t == Tabulate(results_list, Len(results_list), strat[strategy_1].name)
           avg(m) == IF Len(m) = 0 THEN <<0, 1>> ELSE Fraction(sumList(m), Len(m))
       IN  /\ results' = <<[game_settings |->
                                [game_count |-> games,
                                 winning_score |-> winning_score,
                                 strategy_1 |-> strat[strategy_1].name,
                                 strategy_2 |-> strat[strategy_2].name],
                            win_count |-> t.wins,
                            win_margins |-> t.margins,
                            average_margins |->
                                <<avg(t.margins[1]), avg(t.margins[2])>>]>>
           /\ pc' = "returned"
    /\ UNCHANGED <<strat, strategy_1, strategy_2, winning_score, games,
                   current_moves, roll, results_list, last_step, turn_start,
                   turn_rolls, reached, decision_call>>
    /\ UNCHANGED aggVars
    /\ UNCHANGED sim

\* lines 322-368: the results are assembled and returned; the division by the
\* length of an empty margin list raises ZeroDivisionError
Assemble ==
    /\ pc = "assemble"
    /\ LET t == Tabulate(results_list, Len(results_list), strat[strategy_1].name) IN
       IF AverageDefined(t.margins[1]) /\ AverageDefined(t.margins[2])
       THEN /\ results' = <<ResultsDict(results_list, games, winning_score,
                                         strat[strategy_1].name,
                                         strat[strategy_2].name)>>
            /\ pc' = "returned"
       ELSE /\ results' = results
            /\ pc' = "ZeroDivisionError"
    /\ UNCHANGED <<strat, strategy_1, strategy_2, winning_score, games,
                   current_moves, roll, results_list, last_step, turn_start,
                   turn_rolls, reached, decision_call>>
    /\ UNCHANGED aggVars
    /\ UNCHANGED sim

(* ----- testStrategies ----- *)

\* A float that the aggregation computes is held as a sum of fractions: a set
\* of fractions <<n, d>> in lowest terms, n # 0, no two of one denominator.

\* the sum x + n/d
RECURSIVE SumPlus(_, _)
SumPlus(x, f) ==
    IF f[1] = 0 THEN x
    ELSE IF \E t \in x : t[2] = f[2]
         THEN LET t == CHOOSE u \in x : u[2] = f[2]
              IN  SumPlus(x \ {t}, Fraction(t[1] + f[1], f[2]))
         ELSE x \cup {f}

\* the product x * k of a sum and an integer
RECURSIVE SumTimes(_, _)
SumTimes(x, k) ==
    IF x = {} THEN {}
    ELSE LET t == CHOOSE u \in x : TRUE
         IN  SumPlus(SumTimes(x \ {t}, k), Fraction(t[1] * k, t[2]))

\* the quotient f / k of a fraction and a positive integer
FractionOver(f, k) == Fraction(f[1], f[2] * k)

\* the divisor of the marginal averages (lines 459, 496, 535, 572)
AverageDivisor == 10000

\* lines 496, 572: the average of a strategy seen for the first time
FirstAverage(batch_average) ==
    SumPlus({}, FractionOver(batch_average, AverageDivisor))

\* a running sum whose new term is divided by 10000 * match_count
NextAverageWithoutOne(average, match_count, batch_average) ==
    SumPlus(SumTimes(average, match_count),
            FractionOver(batch_average, AverageDivisor * match_count))

\* lines 459, 535: the average of a strategy seen before
NextAverage(average, match_count, batch_average) ==
    SumPlus(SumTimes(average, match_count),
            FractionOver(batch_average, AverageDivisor * match_count + 1))

\* an update that replaces the games played by those of the file
UpdateFirstGamesReplaced(current_strategy, file_results) ==
    LET count == file_results.game_settings.game_count
        wins == file_results.win_count[1]
        wl == current_strategy.win_loss_rate
    IN  [games_played |-> count,
         average_margin |->
            [average |-> NextAverage(current_strategy.average_margin.average,
                                     current_strategy.average_margin.match_count,
                                     file_results.average_margins[1]),
             match_count |-> current_strategy.average_margin.match_count + 1],
         win_loss_rate |->
            [overall |-> [wins |-> wl.overall.wins + wins,
                          losses |-> wl.overall.losses + (count - wins)],
             first |-> [wins |-> wl.first.wins + wins,
                        losses |-> wl.first.losses + (count - wins)],
             second |-> [wins |-> wl.second.wins,
                         losses |-> wl.second.losses]]]

\* an update for strategy_1 that counts the games in the second bucket too
UpdateFirstCountsSecond(current_strategy, file_results) ==
    LET count == file_results.game_settings.game_count
        wins == file_results.win_count[1]
        wl == current_strategy.win_loss_rate
    IN  [games_played |-> current_strategy.games_played + count,
         average_margin |->
            [average |-> NextAverage(current_strategy.average_margin.average,
                                     current_strategy.average_margin.match_count,
                                     file_results.average_margins[1]),
             match_count |-> current_strategy.average_margin.match_count + 1],
         win_loss_rate |->
            [overall |-> [wins |-> wl.overall.wins + wins,
                          losses |-> wl.overall.losses + (count - wins)],
             first |-> [wins |-> wl.first.wins + wins,
                        losses |-> wl.first.losses + (count - wins)],
             second |-> [wins |-> wl.second.wins + wins,
                         losses |-> wl.second.losses + (count - wins)]]]

\* lines 452-485: the record of strategy_1 of the file, seen before
UpdateFirst(current_strategy, file_results) ==
    LET count == file_results.game_settings.game_count
        wins == file_results.win_count[1]
        wl == current_strategy.win_loss_rate
    IN  [games_played |-> current_strategy.games_played + count,
         average_margin |->
            [average |-> NextAverage(current_strategy.average_margin.average,
                                     current_strategy.average_margin.match_count,
                                     file_results.average_margins[1]),
             match_count |-> current_strategy.average_margin.match_count + 1],
         win_loss_rate |->
            [overall |-> [wins |-> wl.overall.wins + wins,
                          losses |-> wl.overall.losses + (count - wins)],
             first |-> [wins |-> wl.first.wins + wins,
                        losses |-> wl.first.losses + (count - wins)],
             second |-> [wins |-> wl.second.wins,
                         losses |-> wl.second.losses]]]

\* a first record of strategy_1 that counts no loss
NewFirstWithoutLosses(file_results) ==
    LET count == file_results.game_settings.game_count
        wins == file_results.win_count[1]
    IN  [games_played |-> count,
         average_margin |->
            [average |-> FirstAverage(file_results.average_margins[1]),
             match_count |-> 1],
         win_loss_rate |->
            [overall |-> [wins |-> wins, losses |-> 0],
             first |-> [wins |-> wins, losses |-> 0],
             second |-> [wins |-> 0, losses |-> 0]]]

\* lines 489-522: the record of strategy_1 of the file, seen for the first time
NewFirst(file_results) ==
    LET count == file_results.game_settings.game_count
        wins == file_results.win_count[1]
    IN  [games_played |-> count,
         average_margin |->
            [average |-> FirstAverage(file_results.average_margins[1]),
             match_count |-> 1],
         win_loss_rate |->
            [overall |-> [wins |-> wins, losses |-> count - wins],
             first |-> [wins |-> wins, losses |-> count - wins],
             second |-> [wins |-> 0, losses |-> 0]]]

\* lines 528-561: the record of strategy_2 of the file, seen before; the wins
\* and the average are read at index 0 of the file's lists
UpdateSecond(current_strategy, file_results) ==
    LET count == file_results.game_settings.game_count
        wins == file_results.win_count[1]
        wl == current_strategy.win_loss_rate
    IN  [games_played |-> current_strategy.games_played + count,
         average_margin |->
            [average |-> NextAverage(current_strategy.average_margin.average,
                                     current_strategy.average_margin.match_count,
                                     file_results.average_margins[1]),
             match_count |-> current_strategy.average_margin.match_count + 1],
         win_loss_rate |->
            [overall |-> [wins |-> wl.overall.wins + wins,
                          losses |-> wl.overall.losses + (count - wins)],
             first |-> [wins |-> wl.first.wins,
                        losses |-> wl.first.losses],
             second |-> [wins |-> wl.second.wins + wins,
                         losses |-> wl.second.losses + (count - wins)]]]

\* a first record of strategy_2 that leaves the second bucket empty
NewSecondOverallOnly(file_results) ==
    LET count == file_results.game_settings.game_count
        wins == file_results.win_count[1]
    IN  [games_played |-> count,
         average_margin |->
            [average |-> FirstAverage(file_results.average_margins[1]),
             match_count |-> 1],
         win_loss_rate |->
            [overall |-> [wins |-> wins, losses |-> count - wins],
             first |-> [wins |-> 0, losses |-> 0],
             second |-> [wins |-> 0, losses |-> 0]]]

\* lines 565-598: the record of strategy_2 of the file, seen for the first time
NewSecond(file_results) ==
    LET count == file_results.game_settings.game_count
        wins == file_results.win_count[1]
    IN  [games_played |-> count,
         average_margin |->
            [average |-> FirstAverage(file_results.average_margins[1]),
             match_count |-> 1],
         win_loss_rate |->
            [overall |-> [wins |-> wins, losses |-> count - wins],
             first |-> [wins |-> 0, losses |-> 0],
             second |-> [wins |-> wins, losses |-> count - wins]]]

\* aggregate[name] = record, name being in the dictionary or not
Assign(aggregate, name, record) ==
    [n \in DOMAIN aggregate \cup {name} |->
        IF n = name THEN record ELSE aggregate[n]]

\* lines 448-522: the update for the first strategy of the file; the lookup of
\* a name that is not in the dictionary raises KeyError
FoldFirst(aggregate, file_results) ==
    LET name == file_results.game_settings.strategy_1 IN
    IF name \in DOMAIN aggregate
    THEN Assign(aggregate, name, UpdateFirst(aggregate[name], file_results))
    ELSE Assign(aggregate, name, NewFirst(file_results))

\* an update for the second strategy that skips a name not in the dictionary
FoldSecondKnownOnly(aggregate, file_results) ==
    LET name == file_results.game_settings.strategy_2 IN
    IF name \in DOMAIN aggregate
    THEN Assign(aggregate, name, UpdateSecond(aggregate[name], file_results))
    ELSE aggregate

\* an update for the second strategy that skips a file of one strategy
\* playing itself
FoldSecondOncePerName(aggregate, file_results) ==
    LET name == file_results.game_settings.strategy_2 IN
    IF name = file_results.game_settings.strategy_1 THEN aggregate
    ELSE IF name \in DOMAIN aggregate
    THEN Assign(aggregate, name, UpdateSecond(aggregate[name], file_results))
    ELSE Assign(aggregate, name, NewSecond(file_results))

\* lines 524-598: the update for the second strategy of the file
FoldSecond(aggregate, file_results) ==
    LET name == file_results.game_settings.strategy_2 IN
    IF name \in DOMAIN aggregate
    THEN Assign(aggregate, name, UpdateSecond(aggregate[name], file_results))
    ELSE Assign(aggregate, name, NewSecond(file_results))

\* lines 446-598: one file folded into the dictionary
Fold(aggregate, file_results) ==
    FoldSecond(FoldFirst(aggregate, file_results), file_results)

\* lines 606-617: the rate of a bucket can be computed
RateDefined(bucket) == bucket.wins + bucket.losses # 0

\* lines 606-617: a bucket with its rate
WithRate(bucket) ==
    [wins |-> bucket.wins, losses |-> bucket.losses,
     rate |-> Fraction(bucket.wins, bucket.wins + bucket.losses)]

\* lines 602-617: the dictionary with the winrates added
WithRates(aggregate) ==
    [n \in DOMAIN aggregate |->
        [games_played |-> aggregate[n].games_played,
         average_margin |-> aggregate[n].average_margin,
         win_loss_rate |->
            [overall |-> WithRate(aggregate[n].win_loss_rate.overall),
             first |-> WithRate(aggregate[n].win_loss_rate.first),
             second |-> WithRate(aggregate[n].win_loss_rate.second)]]]

\* lines 444-522: the loop over os.listdir, which lists the files in any
\* order, takes the next file, reads it and updates the data for the first
\* strategy in the match
ForFilename ==
    /\ pc = "for_filename"
    /\ \E next_filename \in unread :
          /\ filename' = next_filename
          /\ current_results' = match_data[next_filename]
          /\ unread' = unread \ {next_filename}
    /\ before' = aggregate_results
    /\ aggregate_results' = FoldFirst(aggregate_results, current_results')
    /\ pc' = "update_second"
    /\ UNCHANGED <<match_data, saved>>
    /\ UNCHANGED blockVars
    /\ UNCHANGED sim

\* lines 524-598: the data for the second strategy in the match is updated, and
\* the loop goes on to the next file or ends
UpdateSecondStrategy ==
    /\ pc = "update_second"
    /\ before' = aggregate_results
    /\ aggregate_results' = FoldSecond(aggregate_results, current_results)
    /\ pc' = IF unread = {} THEN "rates" ELSE "for_filename"
    /\ UNCHANGED <<match_data, unread, saved, filename, current_results>>
    /\ UNCHANGED blockVars
    /\ UNCHANGED sim

\* winrates that give a bucket without games the rate 0
AddRatesDefaulted ==
    /\ pc = "rates"
    /\ LET rate(bucket) ==
               [wins |-> bucket.wins, losses |-> bucket.losses,
                rate |-> IF RateDefined(bucket)
                         THEN Fraction(bucket.wins, bucket.wins + bucket.losses)
                         ELSE <<0, 1>>]
       IN  aggregate_results' =
              [n \in DOMAIN aggregate_results |->
                  [games_played |-> aggregate_results[n].games_played,
                   average_margin |-> aggregate_results[n].average_margin,
                   win_loss_rate |->
                      [overall |-> rate(aggregate_results[n].win_loss_rate.overall),
                       first |-> rate(aggregate_results[n].win_loss_rate.first),
                       second |-> rate(aggregate_results[n].win_loss_rate.second)]]]
    /\ saved' = <<aggregate_results'>>
    /\ pc' = "aggregated"
    /\ UNCHANGED <<match_data, unread, filename, current_results, before>>
    /\ UNCHANGED blockVars
    /\ UNCHANGED sim

\* lines 600-623: the winrates are added, the dictionary is saved and returned;
\* the division by wins + losses = 0 raises ZeroDivisionError, and the
\* dictionary, a local of the call, is lost
AddRates ==
    /\ pc = "rates"
    /\ IF \A n \in DOMAIN aggregate_results :
             /\ RateDefined(aggregate_results[n].win_loss_rate.overall)
             /\ RateDefined(aggregate_results[n].win_loss_rate.first)
             /\ RateDefined(aggregate_results[n].win_loss_rate.second)
       THEN /\ aggregate_results' = WithRates(aggregate_results)
            /\ saved' = <<aggregate_results'>>
            /\ pc' = "aggregated"
       ELSE /\ UNCHANGED <<aggregate_results, saved>>
            /\ pc' = "rate_ZeroDivisionError"
    /\ UNCHANGED <<match_data, unread, filename, current_results, before>>
    /\ UNCHANGED blockVars
    /\ UNCHANGED sim

(* ----- the specification ----- *)

\* runSimulationBlock(strategy_1, strategy_2, winning_score, games) is called on
\* two strategy objects, or on one object twice; two objects of one name are
\* two copies of one strategy
Init ==
    /\ strategy_1 = 1
    /\ strategy_2 \in StrategyIds
    /\ \E df_1 \in DecisionFunctions, df_2 \in DecisionFunctions,
          name_2 \in StrategyNames :
          /\ strategy_2 = strategy_1 => name_2 = "strategy_A"
          /\ name_2 = "strategy_A" => df_2 = df_1
          /\ strat = <<strategy("strategy_A", df_1), strategy(name_2, df_2)>>
    /\ winning_score \in 1..MaxWinningScore
    /\ games \in -1..MaxGames
    /\ pc = "for_games"
    /\ current_moves = <<>>
    /\ roll = 0
    /\ results_list = <<>>
    /\ results = <<>>
    /\ last_step = "none"
    /\ turn_start = 0
    /\ turn_rolls = 0
    /\ reached = <<>>
    /\ decision_call = <<>>
    /\ match_data = <<>>
    /\ unread = {}
    /\ aggregate_results = <<>>
    /\ saved = <<>>
    /\ filename = 0
    /\ current_results = <<>>
    /\ before = <<>>
    /\ sim = <<>>

Next ==
    \/ ForGames
    \/ Reset
    \/ Strategy1Loop
    \/ Strategy1Bank
    \/ Strategy2Loop
    \/ Strategy2Bank
    \/ Return
    \/ Assemble

Spec == Init /\ [][Next]_vars

\* largest number of files in ./match_data
MaxFiles == 2

\* the results of n games of which strategy_1 won the first k, every loser
\* ending with 2 points
WonGames(k, n, name_1, name_2) ==
    [i \in 1..n |-> <<IF i <= k THEN name_1 ELSE name_2, MarginBase - 2>>]

\* the results dictionaries runSimulationBlock can have written
BatchResults ==
    {ResultsDict(WonGames(k, n, name_1, name_2), n, MaxWinningScore, name_1, name_2) :
        k \in 0..MaxGames, n \in 1..MaxGames,
        name_1 \in StrategyNames, name_2 \in StrategyNames}

\* testStrategies is called with the files of some blocks in ./match_data
AggInit ==
    /\ \E count \in 1..MaxFiles : match_data \in [1..count -> BatchResults]
    /\ unread = DOMAIN match_data
    /\ aggregate_results = <<>>
    /\ saved = <<>>
    /\ filename = 0
    /\ current_results = <<>>
    /\ before = <<>>
    /\ sim = <<>>
    /\ pc = "for_filename"
    /\ strategy_1 = 1
    /\ strategy_2 = 2
    /\ strat = <<strategy("strategy_A", decisionFunction("alwaysTrue", <<>>)),
                 strategy("strategy_B", decisionFunction("alwaysFalse", <<>>))>>
    /\ winning_score = MaxWinningScore
    /\ games = 0
    /\ current_moves = <<>>
    /\ roll = 0
    /\ results_list = <<>>
    /\ results = <<>>
    /\ last_step = "none"
    /\ turn_start = 0
    /\ turn_rolls = 0
    /\ reached = <<>>
    /\ decision_call = <<>>

AggNext ==
    \/ ForFilename
    \/ UpdateSecondStrategy
    \/ AddRates

AggSpec == AggInit /\ [][AggNext]_vars

(* ----- one game under a fair die ----- *)

\* a loop iteration in which the die does not show 1
RollNotOne == \E p \in {1, 2}, r \in rollDie \ {1} : LoopRoll(p, r)

\* a loop iteration in which the die does not show 1, made with k points pending
RollNotOneAt(k) == sumList(current_moves) = k /\ RollNotOne

\* the die is fair at every pending sum: where rolls are made again and again,
\* the die does not show 1 every time
DieFairness == \A k \in 0..MaxWinningScore : SF_vars(RollNotOneAt(k))

\* runSimulationBlock is called for one game
FairInit == Init /\ games = 1

\* the program runs on, and the die does not show 1 forever
FairSpec == FairInit /\ [][Next]_vars /\ WF_vars(Next) /\ SF_vars(RollNotOne)

(* ----- properties of runSimulation ----- *)

\* runSimulation has just returned: the strategies still hold their final scores
JustReturned == pc = "for_games" /\ results_list # <<>>

\* the result of the game that has just returned
LastResult == results_list[Len(results_list)]

\* the positions inside the turn loop of runSimulation
TurnPcs == {"while_1", "bank_1", "while_2", "bank_2"}

\* C1 as stated: if the die does not show 1 forever, every game that is started
\* is over at some time and returns its result.
C1_Terminates == (pc = "reset" /\ strategy_1 # strategy_2) ~> JustReturned

\* C1: if the die is fair at every pending sum, every game that is started is
\* over at some time and returns its result.
C1_TerminatesUnderDieFairness == DieFairness => ((pc = "reset") ~> JustReturned)

\* a game with the largest winning score has returned after a turn of two rolls
\* or more
C1_Witness ==
    /\ JustReturned
    /\ games = 1
    /\ winning_score = MaxWinningScore
    /\ LastResult[2] < 100

\* C2: when runSimulation returns for two distinct strategy objects, exactly one
\* of them has current_score >= winning_score, the returned winner is that
\* object's name and the other object's score is below winning_score.
C2_ExactlyOneWinner ==
    (strategy_1 # strategy_2 /\ JustReturned) =>
        LET s1 == strat[strategy_1]
            s2 == strat[strategy_2]
        IN  \/ /\ s1.current_score >= winning_score
               /\ s2.current_score < winning_score
               /\ LastResult[1] = s1.name
            \/ /\ s2.current_score >= winning_score
               /\ s1.current_score < winning_score
               /\ LastResult[1] = s2.name

\* a game between two objects is won by the second mover after the first has scored
C2_Witness ==
    /\ strategy_1 # strategy_2
    /\ JustReturned
    /\ strat[strategy_2].current_score >= winning_score
    /\ strat[strategy_1].current_score > 0

\* C3: the margin returned is 100 minus the final score of the player that is
\* below winning_score, whatever winning_score is and whoever wins.
C3_MarginFromHundred ==
    JustReturned =>
        \A p \in {1, 2} :
            strat[Mover(p)].current_score < winning_score =>
                LastResult[2] = 100 - strat[Mover(p)].current_score

\* the first mover wins, against a loser with points, with winning_score # 100
C3_Witness ==
    /\ JustReturned
    /\ winning_score # 100
    /\ strat[strategy_1].current_score >= winning_score
    /\ strat[strategy_2].current_score > 0
    /\ strat[strategy_2].current_score < winning_score
    /\ LastResult[2] < 100

\* C4: after a roll of 1 the moves are empty and the turn is at its bank (no
\* roll and no decision follows), and the bank leaves the mover's score at its
\* value of the start of the turn.
C4_BustKeepsScore ==
    /\ [](last_step = "bust" =>
            /\ pc \in {"bank_1", "bank_2"}
            /\ roll = 1
            /\ current_moves = <<>>)
    /\ [][\A p \in {1, 2} :
            (pc = BankPc(p) /\ last_step = "bust") =>
                /\ strat'[Mover(p)].current_score = turn_start
                /\ strat'[Mover(p)].current_score = strat[Mover(p)].current_score
                /\ pc' = WhilePc(3 - p)]_vars

\* a 1 is rolled after a roll that was kept
C4_Witness ==
    /\ last_step = "bust"
    /\ turn_rolls >= 2

\* C5: inside the turn loop strategy_1 is below winning_score: once its score
\* is there the game is at its return, which changes no score and rolls no die.
C5_GameEndsAtOnce ==
    /\ [](pc \in TurnPcs => strat[strategy_1].current_score < winning_score)
    /\ [][(pc = "result") =>
            /\ strat' = strat
            /\ pc' = "for_games"
            /\ Len(results_list') = Len(results_list) + 1]_vars

\* strategy_1 has reached winning_score against another object that has points
C5_Witness ==
    /\ pc = "result"
    /\ strategy_1 # strategy_2
    /\ strat[strategy_1].current_score >= winning_score
    /\ strat[strategy_2].current_score > 0

(* ----- properties of runSimulationBlock ----- *)

\* a game has been reset and no die has been rolled in it
GameStart == pc = "while_1" /\ roll = 0

\* C6: every game of a block starts with current_score = 0 and
\* winning_score = the block's winning_score in both strategies.
C6_GameStartsFresh ==
    GameStart =>
        \A p \in {1, 2} :
            /\ strat[Mover(p)].current_score = 0
            /\ strat[Mover(p)].winning_score = winning_score

\* a later game of a block starts, after a game that left points in both objects
C6_Witness ==
    /\ GameStart
    /\ strategy_1 # strategy_2
    /\ results_list # <<>>
    /\ LastResult[2] < 100

\* the number of games in which mover k reached winning_score
RECURSIVE ReachedCount(_, _)
ReachedCount(n, k) ==
    IF n = 0 THEN 0
    ELSE ReachedCount(n - 1, k) + (IF reached[n][k] THEN 1 ELSE 0)

\* C7: a block that returns has win counts that sum to games, margin lists of
\* length games, and for every game one list holds the game's margin and the
\* other its negation, in play order.
C7_BlockTabulation ==
    pc = "returned" =>
        LET r == results[1] IN
        /\ games >= 1
        /\ r.win_count[1] + r.win_count[2] = games
        /\ Len(r.win_margins[1]) = games
        /\ Len(r.win_margins[2]) = games
        /\ \A i \in 1..games :
              /\ r.win_margins[1][i] = -r.win_margins[2][i]
              /\ \/ r.win_margins[1][i] = results_list[i][2]
                 \/ r.win_margins[2][i] = results_list[i][2]

\* a block of two games or more returns with a win on each side
C7_Witness ==
    /\ pc = "returned"
    /\ games >= 2
    /\ results[1].win_count[1] >= 1
    /\ results[1].win_count[2] >= 1

\* C8 as stated: for two strategy objects, whatever their names, win_count
\* holds the games in which the first mover and the second mover reached the
\* winning score.
C8_WinCountByMover ==
    (pc = "returned" /\ strategy_1 # strategy_2) =>
        /\ results[1].win_count[1] = ReachedCount(Len(reached), 1)
        /\ results[1].win_count[2] = ReachedCount(Len(reached), 2)

\* C8: for strategies with different names, win_count holds the games in which
\* the first mover and the second mover reached the winning score.
C8_WinCountByName ==
    (pc = "returned" /\ strat[strategy_1].name # strat[strategy_2].name) =>
        /\ results[1].win_count[1] = ReachedCount(Len(reached), 1)
        /\ results[1].win_count[2] = ReachedCount(Len(reached), 2)

\* a block between two names returns, the second mover having won the first game
C8_Witness ==
    /\ pc = "returned"
    /\ strat[strategy_1].name # strat[strategy_2].name
    /\ reached[1] = <<FALSE, TRUE>>
    /\ results[1].win_count[1] >= 1

\* C9: a block asked for no game, or for a negative number of games, returns no
\* results: it plays no game and ends in the division error.
C9_NoGamesIsAnError ==
    games <= 0 =>
        /\ results = <<>>
        /\ results_list = <<>>
        /\ pc \in {"for_games", "assemble", "ZeroDivisionError"}

\* a block asked for a negative number of games has ended in the division error
C9_Witness ==
    /\ games < 0
    /\ pc = "ZeroDivisionError"

(* ----- properties of testStrategies ----- *)

\* the files 1..n folded in the order of their numbers
RECURSIVE FoldInOrder(_)
FoldInOrder(n) ==
    IF n = 0 THEN <<>> ELSE Fold(FoldInOrder(n - 1), match_data[n])

\* the wins and losses of a bucket
WinsLosses(bucket) == <<bucket.wins, bucket.losses>>

\* the games played, the wins and the losses of every strategy of a dictionary
Counts(aggregate) ==
    [n \in DOMAIN aggregate |->
        [games_played |-> aggregate[n].games_played,
         overall |-> WinsLosses(aggregate[n].win_loss_rate.overall),
         first |-> WinsLosses(aggregate[n].win_loss_rate.first),
         second |-> WinsLosses(aggregate[n].win_loss_rate.second)]]

\* C10: in whatever order the files are folded, the games played, the wins and
\* the losses of every strategy end as they do when the files are folded in
\* the order of their numbers.
C10_CountsIgnoreOrder ==
    pc \in {"rates", "aggregated", "rate_ZeroDivisionError"} =>
        Counts(aggregate_results) = Counts(FoldInOrder(Len(match_data)))

\* two files of different blocks that share a strategy have been folded, the
\* file of the larger number first
C10_Witness ==
    /\ pc = "rates"
    /\ Len(match_data) >= 2
    /\ match_data[1] # match_data[2]
    /\ match_data[1].game_settings.strategy_1 = match_data[2].game_settings.strategy_1
    /\ aggregate_results # FoldInOrder(Len(match_data))

\* the games played, the wins and the losses of a strategy in a dictionary, all
\* zero for a strategy that is not in it
CountsOf(aggregate, name) ==
    IF name \in DOMAIN aggregate
    THEN Counts(aggregate)[name]
    ELSE [games_played |-> 0, overall |-> <<0, 0>>, first |-> <<0, 0>>,
          second |-> <<0, 0>>]

\* the update for the first strategy of the file has just been made
FirstUpdated == pc = "update_second"

\* the update for the second strategy of the file has just been made
SecondUpdated ==
    /\ pc \in {"for_filename", "rates"}
    /\ filename # 0

\* C11: the update for the strategy the file names as strategy_1 adds the
\* file's game_count to its games_played, win_count[0] to its overall and
\* first wins, and game_count - win_count[0] to its overall and first losses,
\* counting from zero when the strategy was not yet in the dictionary.
C11_FirstStrategyCounts ==
    FirstUpdated =>
        LET name == current_results.game_settings.strategy_1
            count == current_results.game_settings.game_count
            wins == current_results.win_count[1]
            old == CountsOf(before, name)
        IN  /\ name \in DOMAIN aggregate_results
            /\ aggregate_results[name].games_played = old.games_played + count
            /\ aggregate_results[name].win_loss_rate.overall.wins
                   = old.overall[1] + wins
            /\ aggregate_results[name].win_loss_rate.first.wins
                   = old.first[1] + wins
            /\ aggregate_results[name].win_loss_rate.overall.losses
                   = old.overall[2] + (count - wins)
            /\ aggregate_results[name].win_loss_rate.first.losses
                   = old.first[2] + (count - wins)

\* the second file is folded for its strategy_1, which the first file has put
\* in the dictionary as its own strategy_1 only, with a win and a loss
C11_Witness ==
    /\ FirstUpdated
    /\ current_results.game_settings.strategy_1 \in DOMAIN before
    /\ before[current_results.game_settings.strategy_1].average_margin.match_count = 1
    /\ before[current_results.game_settings.strategy_1].win_loss_rate.first.wins > 0
    /\ current_results.game_settings.game_count = 2
    /\ current_results.win_count[1] = 1

\* C12: the update for the strategy the file names as strategy_2 adds the
\* file's game_count to its games_played, that side's own wins (win_count[1]
\* of the file) to its overall and second wins, that side's own losses
\* (game_count - win_count[1]) to its overall and second losses, and leaves
\* its first bucket as it was.
C12_SecondStrategyCounts ==
    SecondUpdated =>
        LET name == current_results.game_settings.strategy_2
            count == current_results.game_settings.game_count
            wins == current_results.win_count[2]
            old == CountsOf(before, name)
        IN  /\ name \in DOMAIN aggregate_results
            /\ aggregate_results[name].games_played = old.games_played + count
            /\ aggregate_results[name].win_loss_rate.overall.wins
                   = old.overall[1] + wins
            /\ aggregate_results[name].win_loss_rate.second.wins
                   = old.second[1] + wins
            /\ aggregate_results[name].win_loss_rate.overall.losses
                   = old.overall[2] + (count - wins)
            /\ aggregate_results[name].win_loss_rate.second.losses
                   = old.second[2] + (count - wins)
            /\ WinsLosses(aggregate_results[name].win_loss_rate.first) = old.first

\* the files whose update for their second strategy has been made
SecondFolded ==
    {f \in DOMAIN match_data \ unread : ~(FirstUpdated /\ f = filename)}

\* C13: a strategy that no folded file names as strategy_2 has the second
\* bucket wins = 0, losses = 0; the update for a file's strategy_1 leaves that
\* strategy's second bucket as it was, and the update for a file's strategy_2
\* changes the second bucket of no other strategy.
C13_SecondBucketBySecondOnly ==
    /\ \A n \in DOMAIN aggregate_results :
          (\A f \in SecondFolded : match_data[f].game_settings.strategy_2 # n)
             => WinsLosses(aggregate_results[n].win_loss_rate.second) = <<0, 0>>
    /\ FirstUpdated =>
          \A n \in DOMAIN aggregate_results :
             WinsLosses(aggregate_results[n].win_loss_rate.second)
                = CountsOf(before, n).second
    /\ SecondUpdated =>
          \A n \in DOMAIN aggregate_results \ {current_results.game_settings.strategy_2} :
             WinsLosses(aggregate_results[n].win_loss_rate.second)
                = CountsOf(before, n).second

\* two files have been folded that name a strategy as strategy_1 and never as
\* strategy_2, and its second bucket is empty
C13_Witness ==
    /\ pc = "rates"
    /\ \E n \in DOMAIN aggregate_results :
          /\ aggregate_results[n].average_margin.match_count = 2
          /\ aggregate_results[n].win_loss_rate.first.wins > 0
          /\ \A f \in DOMAIN match_data : match_data[f].game_settings.strategy_2 # n
          /\ WinsLosses(aggregate_results[n].win_loss_rate.second) = <<0, 0>>

\* the buckets of the strategies of a dictionary
Buckets(aggregate) ==
    UNION {{aggregate[n].win_loss_rate.overall, aggregate[n].win_loss_rate.first,
            aggregate[n].win_loss_rate.second} : n \in DOMAIN aggregate}

\* testStrategies has ended
AggregationEnded == pc \in {"aggregated", "rate_ZeroDivisionError"}

\* C14: when all files are folded and some strategy has wins + losses = 0 in
\* its overall, first or second bucket, testStrategies ends in the division
\* error: nothing is saved or returned and no bucket has been given a rate;
\* it saves and returns a dictionary only when every bucket has games, and
\* then every bucket carries its rate.
C14_EmptyBucketIsAnError ==
    /\ ~AggregationEnded => saved = <<>>
    /\ AggregationEnded =>
          ((\E b \in Buckets(aggregate_results) : b.wins + b.losses = 0)
              <=> pc = "rate_ZeroDivisionError")
    /\ pc = "rate_ZeroDivisionError" =>
          /\ saved = <<>>
          /\ \A b \in Buckets(aggregate_results) : DOMAIN b = {"wins", "losses"}
    /\ pc = "aggregated" =>
          /\ saved = <<aggregate_results>>
          /\ \A b \in Buckets(aggregate_results) :
                /\ DOMAIN b = {"wins", "losses", "rate"}
                /\ b.rate[2] > 0
                /\ b.rate[1] * (b.wins + b.losses) = b.wins * b.rate[2]

\* a strategy has played, as strategy_1 only, so that its second bucket is
\* empty, and testStrategies has ended in the division error
C14_Witness ==
    /\ pc = "rate_ZeroDivisionError"
    /\ \E n \in DOMAIN aggregate_results :
          /\ aggregate_results[n].win_loss_rate.overall.wins > 0
          /\ aggregate_results[n].win_loss_rate.second.wins
                + aggregate_results[n].win_loss_rate.second.losses = 0

\* the files whose update for their first strategy has been made
FirstFolded == DOMAIN match_data \ unread

\* the names the updates made so far were made for
FoldedNames ==
    {match_data[f].game_settings.strategy_1 : f \in FirstFolded}
       \cup {match_data[f].game_settings.strategy_2 : f \in SecondFolded}

\* C15: the keys of the aggregate dictionary are exactly the names that a
\* folded file gives as strategy_1 or as strategy_2; a name seen for the first
\* time gets a fresh record of one match, and a strategy of no folded file is
\* not in the dictionary.
C15_KeysAreFoldedNames ==
    /\ DOMAIN aggregate_results = FoldedNames
    /\ FirstUpdated /\ current_results.game_settings.strategy_1 \notin DOMAIN before =>
          aggregate_results[current_results.game_settings.strategy_1]
             .average_margin.match_count = 1
    /\ SecondUpdated /\ current_results.game_settings.strategy_2 \notin DOMAIN before =>
          aggregate_results[current_results.game_settings.strategy_2]
             .average_margin.match_count = 1

\* the files of two blocks of strategy_A against strategy_B are folded; the
\* second file has found both names in the dictionary
C15_Witness ==
    /\ pc = "rates"
    /\ Len(match_data) = 2
    /\ \A f \in DOMAIN match_data :
          /\ match_data[f].game_settings.strategy_1 = "strategy_A"
          /\ match_data[f].game_settings.strategy_2 = "strategy_B"
    /\ DOMAIN aggregate_results = {"strategy_A", "strategy_B"}
    /\ aggregate_results["strategy_B"].average_margin.match_count = 2

\* the average and the match count the update rule gives a strategy with the
\* record old, or with none when seen is false, for the batch average m
RunningAverage(seen, old, m) ==
    IF ~seen
    THEN [average |-> SumPlus({}, Fraction(m[1], m[2] * 10000)),
          match_count |-> 1]
    ELSE [average |-> SumPlus(SumTimes(old.average, old.match_count),
                              Fraction(m[1], m[2] * (10000 * old.match_count + 1))),
          match_count |-> old.match_count + 1]

\* the average_margin record of a strategy in a dictionary that has it
AverageMarginOf(aggregate, name) ==
    IF name \in DOMAIN aggregate THEN aggregate[name].average_margin
    ELSE [average |-> {}, match_count |-> 0]

C20_SecondAverageIsOwn ==
    SecondUpdated =>
        LET name == current_results.game_settings.strategy_2 IN
        aggregate_results[name].average_margin
           = RunningAverage(name \in DOMAIN before, AverageMarginOf(before, name),
                            current_results.average_margins[2])

(* ----- properties of the decisions in runSimulation ----- *)

\* the decision function of the strategy whose turn it is
MoverDecision(p) == strat[Mover(p)].decision_function

\* the last loop iteration of mover p's turn asked the strategy for its
\* decision, and the banked score plus the pending sum is below the target
Decided(p) ==
    /\ pc \in {WhilePc(p), BankPc(p)}
    /\ decision_call # <<>>
    /\ strat[Mover(p)].current_score + sumList(current_moves) < winning_score

\* C17: a strategy built on untilValue with a threshold goes on rolling while
\* the pending sum is below the threshold and banks as soon as it is at least
\* the threshold: after a non-bust roll that leaves banked score + pending sum
\* below the target, it rolls again if and only if the pending sum is below
\* the threshold.
C17_UntilValueRollsBelowThreshold ==
    \A p \in {1, 2} :
        (Decided(p) /\ MoverDecision(p).decision_function = "untilValue") =>
            (pc = WhilePc(p)
                <=> sumList(current_moves) < MoverDecision(p).constant_parameters[1])

\* the last loop iteration of mover p's turn asked the strategy for its decision
Called(p) ==
    /\ pc \in {WhilePc(p), BankPc(p)}
    /\ decision_call # <<>>

\* the values the decision of the last call can have had
LastDecision(p) == getDecision(strat[Mover(p)], decision_call[1], decision_call[2])

C19_DecisionCallArguments ==
    /\ decision_call # <<>> =>
          /\ Len(decision_call[2]) >= 1
          /\ \A k \in 1..Len(decision_call[2]) : decision_call[2][k] \in 2..6
          /\ decision_call[2][Len(decision_call[2])] = roll
          /\ decision_call[2] = current_moves
          /\ \A p \in {1, 2} :
                pc \in {WhilePc(p), BankPc(p)} =>
                   decision_call[1] = strat[Opponent(p)].current_score
    /\ (pc \in TurnPcs /\ (turn_rolls = 0 \/ roll = 1)) => decision_call = <<>>

\* untilRoll, with nothing banked, has been asked after its second roll of the
\* turn, its opponent having banked points
C19_Witness ==
    /\ Called(2)
    /\ MoverDecision(2).decision_function = "untilRoll"
    /\ Len(decision_call[2]) = 2
    /\ decision_call[1] > 0
    /\ strategy_1 # strategy_2

(* ----- properties of the scores in runSimulation ----- *)

\* a game between two strategy objects is being played or has just ended
InGame ==
    /\ strategy_1 # strategy_2
    /\ pc \in TurnPcs \cup {"result"}

\* C22: no die is rolled in a turn once banked score + pending sum has reached
\* winning_score, so that a score passes the target by at most 5: throughout a
\* game between two strategy objects both scores are in 0..winning_score + 5,
\* at the start of every turn (and all through it) both are below
\* winning_score, and a score changes only at the bank that ends its owner's
\* turn, never downwards.
C22_ScoresWithinFiveOfTarget ==
    /\ [](InGame =>
            /\ \A id \in {strategy_1, strategy_2} :
                  strat[id].current_score \in 0..(winning_score + 5)
            /\ pc \in TurnPcs =>
                  \A id \in {strategy_1, strategy_2} :
                     strat[id].current_score < winning_score
            /\ \A p \in {1, 2} :
                  (pc \in {WhilePc(p), BankPc(p)} /\ current_moves # <<>>) =>
                     strat[Mover(p)].current_score + sumList(current_moves)
                        - current_moves[Len(current_moves)] < winning_score)
    /\ [][InGame =>
            \A p \in {1, 2} :
               /\ strat'[Mover(p)].current_score >= strat[Mover(p)].current_score
               /\ strat'[Mover(p)].current_score # strat[Mover(p)].current_score
                     => pc = BankPc(p)]_vars

\* the second mover, two points banked and below the target, has rolled a 6
\* and ended the game five points above the target
C22_Witness ==
    /\ strategy_1 # strategy_2
    /\ pc = "result"
    /\ turn_start = winning_score - 1
    /\ turn_start > 0
    /\ strat[strategy_2].current_score = winning_score + 5
    /\ strat[strategy_1].current_score < winning_score

(* ----- properties of the aggregate records ----- *)

\* C23: whatever files have been folded, every record of the aggregate
\* dictionary has overall.wins = first.wins + second.wins, overall.losses =
\* first.losses + second.losses and overall.wins + overall.losses =
\* games_played, and none of its counts is negative.
C23_OverallIsFirstPlusSecond ==
    \A n \in DOMAIN aggregate_results :
        LET wl == aggregate_results[n].win_loss_rate IN
        /\ wl.overall.wins = wl.first.wins + wl.second.wins
        /\ wl.overall.losses = wl.first.losses + wl.second.losses
        /\ wl.overall.wins + wl.overall.losses = aggregate_results[n].games_played
        /\ \A b \in {wl.overall, wl.first, wl.second} : b.wins >= 0 /\ b.losses >= 0
        /\ aggregate_results[n].games_played >= 0

\* all files are folded and some strategy has wins and losses both as first
\* and as second strategy
C23_Witness ==
    /\ pc = "rates"
    /\ \E n \in DOMAIN aggregate_results :
          LET wl == aggregate_results[n].win_loss_rate IN
          /\ wl.first.wins > 0
          /\ wl.first.losses > 0
          /\ wl.second.wins > 0
          /\ wl.second.losses > 0

\* the sum of the game counts of a set of files
RECURSIVE GameCountOf(_)
GameCountOf(files) ==
    IF files = {} THEN 0
    ELSE LET f == CHOOSE g \in files : TRUE
         IN  match_data[f].game_settings.game_count + GameCountOf(files \ {f})

\* the files folded for their first, or second, strategy that give it the name
FirstFoldedAs(name) ==
    {f \in FirstFolded : match_data[f].game_settings.strategy_1 = name}
SecondFoldedAs(name) ==
    {f \in SecondFolded : match_data[f].game_settings.strategy_2 = name}

\* C24: a file is folded once for each of its two sides: the match_count of a
\* strategy is the number of (file, side) pairs that carry its name and its
\* games_played the sum of their game counts; so one file of a strategy
\* playing itself raises that record's games_played by 2 * game_count and its
\* match_count by 2, and a file of two different names raises the
\* games_played of each by game_count and the match_count of each by 1.
C24_FoldedOncePerSide ==
    /\ \A n \in DOMAIN aggregate_results :
          /\ aggregate_results[n].average_margin.match_count
                = Cardinality(FirstFoldedAs(n)) + Cardinality(SecondFoldedAs(n))
          /\ aggregate_results[n].games_played
                = GameCountOf(FirstFoldedAs(n)) + GameCountOf(SecondFoldedAs(n))
    /\ SecondUpdated =>
          LET name_1 == current_results.game_settings.strategy_1
              name_2 == current_results.game_settings.strategy_2
              count == current_results.game_settings.game_count
              earlier(n) == Cardinality(FirstFoldedAs(n) \ {filename})
                               + Cardinality(SecondFoldedAs(n) \ {filename})
              played(n) == GameCountOf(FirstFoldedAs(n) \ {filename})
                              + GameCountOf(SecondFoldedAs(n) \ {filename})
          IN  IF name_1 = name_2
              THEN /\ aggregate_results[name_1].average_margin.match_count
                         = earlier(name_1) + 2
                   /\ aggregate_results[name_1].games_played
                         = played(name_1) + 2 * count
              ELSE \A n \in {name_1, name_2} :
                      /\ aggregate_results[n].average_margin.match_count
                            = earlier(n) + 1
                      /\ aggregate_results[n].games_played = played(n) + count

\* a file of strategy_A against strategy_B and then a file of strategy_A
\* playing itself are folded: strategy_A has three matches
C24_Witness ==
    /\ SecondUpdated
    /\ Len(match_data) = 2
    /\ current_results.game_settings.strategy_1 = "strategy_A"
    /\ current_results.game_settings.strategy_2 = "strategy_A"
    /\ "strategy_B" \in DOMAIN aggregate_results
    /\ aggregate_results["strategy_A"].average_margin.match_count = 3
    /\ aggregate_results["strategy_A"].games_played
          = before["strategy_A"].games_played + current_results.game_settings.game_count

(* ----- calls of runSimulation that run at the same time ----- *)

\* the two calls of runSimulation
SimulationIds == {1, 2}

\* the strategy objects the calls can be given
InstanceIds == 1..4

\* largest winning_score passed to the calls that run at the same time
MaxSimWinningScore == 2

\* the pairs of distinct objects the second call is given as strategy_1,
\* strategy_2 when the first call is given objects 1 and 2: it shares none of
\* them, its strategy_1, the same object as its strategy_2, or both
InstancePairs == {<<3, 4>>, <<1, 3>>, <<3, 1>>, <<1, 2>>}

\* the object that moves in turn p of call g
SimMover(g, p) == IF p = 1 THEN sim[g].strategy_1 ELSE sim[g].strategy_2

SimPc(label, p) == IF p = 1 THEN label \o "_1" ELSE label \o "_2"

\* lines 197-201: the statements that reset strategy_1 (p = 1), then
\* strategy_2 (p = 2); line 206 before the first turn
SimReset(g, p) ==
    /\ sim[g].pc = SimPc("reset", p)
    /\ strat' = [strat EXCEPT ![SimMover(g, p)] = ResetStrategy(@, winning_score)]
    /\ sim' = [sim EXCEPT ![g].pc = IF p = 1 THEN "reset_2" ELSE "while_1",
                          ![g].current_moves = <<>>]

\* lines 208, 231: the loop condition fails
SimLoopExit(g, p) ==
    /\ sim[g].pc = SimPc("while", p)
    /\ ~LoopCondition(strat[SimMover(g, p)].current_score, sim[g].current_moves,
                      winning_score)
    /\ sim' = [sim EXCEPT ![g].pc = SimPc("bank", p)]
    /\ strat' = strat

\* lines 208-220, 231-243: one iteration of the roll loop with the die showing r
SimLoopRoll(g, p, r) ==
    /\ sim[g].pc = SimPc("while", p)
    /\ LoopCondition(strat[SimMover(g, p)].current_score, sim[g].current_moves,
                     winning_score)
    /\ IF r = 1
       THEN sim' = [sim EXCEPT ![g].current_moves = BustMoves(@),
                               ![g].pc = SimPc("bank", p)]
       ELSE \E decision \in getDecision(strat[SimMover(g, p)],
                                        strat[SimMover(g, 3 - p)].current_score,
                                        Append(sim[g].current_moves, r)) :
               sim' = [sim EXCEPT ![g].current_moves = Append(@, r),
                                  ![g].pc = IF ~decision THEN SimPc("bank", p)
                                            ELSE SimPc("while", p)]
    /\ strat' = strat

\* lines 222-223, 245-246: the right-hand side of the score update is computed
SimBank(g, p) ==
    /\ sim[g].pc = SimPc("bank", p)
    /\ sim' = [sim EXCEPT ![g].new_score =
                              UpdateScore(strat[SimMover(g, p)].current_score,
                                          sim[g].current_moves),
                          ![g].pc = SimPc("store", p)]
    /\ strat' = strat

\* lines 222-223, 245-246: the computed score is stored in the strategy object
\* (new_score, the value of the expression, is gone after the assignment)
SimStore(g, p) ==
    /\ sim[g].pc = SimPc("store", p)
    /\ strat' = [strat EXCEPT ![SimMover(g, p)].current_score = sim[g].new_score]
    /\ sim' = [sim EXCEPT ![g].pc = SimPc("check", p), ![g].new_score = 0]

\* lines 226-230, 249-250 and 204-207: the game is over if the mover has won,
\* otherwise the other strategy's turn begins
SimCheck(g, p) ==
    /\ sim[g].pc = SimPc("check", p)
    /\ IF HasWon(strat[SimMover(g, p)].current_score, winning_score)
       THEN sim' = [sim EXCEPT ![g].pc = "result"]
       ELSE sim' = [sim EXCEPT ![g].pc = SimPc("while", 3 - p),
                               ![g].current_moves = <<>>]
    /\ strat' = strat

\* line 256: the winner is chosen by the score of strategy_1
SimResult(g) ==
    /\ sim[g].pc = "result"
    /\ sim' = [sim EXCEPT ![g].pc =
                  IF strat[sim[g].strategy_1].current_score >= winning_score
                  THEN "return_1" ELSE "return_2"]
    /\ strat' = strat

\* a return that names strategy_1 the winner whatever was chosen
SimReturnFirst(g, p) ==
    /\ sim[g].pc = SimPc("return", p)
    /\ sim' = [sim EXCEPT
                  ![g].result =
                      <<[winner |-> strat[SimMover(g, 1)].name,
                         margin |-> Margin(strat[SimMover(g, 2)].current_score,
                                           winning_score)]>>,
                  ![g].returned_scores =
                      <<strat[SimMover(g, 1)].current_score,
                        strat[SimMover(g, 2)].current_score>>,
                  ![g].current_moves = <<>>,
                  ![g].pc = "done"]
    /\ strat' = strat

\* lines 258-266: the name of the winner and the margin, computed from the
\* score of the loser, are returned, and the locals of the call are gone;
\* returned_scores keeps the scores the winner and the loser have at that time
SimReturn(g, p) ==
    /\ sim[g].pc = SimPc("return", p)
    /\ sim' = [sim EXCEPT
                  ![g].result =
                      <<[winner |-> strat[SimMover(g, p)].name,
                         margin |-> Margin(strat[SimMover(g, 3 - p)].current_score,
                                           winning_score)]>>,
                  ![g].returned_scores =
                      <<strat[SimMover(g, p)].current_score,
                        strat[SimMover(g, 3 - p)].current_score>>,
                  ![g].current_moves = <<>>,
                  ![g].pc = "done"]
    /\ strat' = strat

\* the variables the concurrent calls leave alone
simUnchanged == <<strategy_1, strategy_2, winning_score, games, pc, current_moves,
                  roll, results_list, results, last_step, turn_start, turn_rolls,
                  reached, decision_call, match_data, unread, aggregate_results,
                  saved, filename, current_results, before>>

SimResetStep ==
    \E g \in SimulationIds, p \in {1, 2} : SimReset(g, p) /\ UNCHANGED simUnchanged
SimLoopStep ==
    \E g \in SimulationIds, p \in {1, 2} :
        /\ SimLoopExit(g, p) \/ \E r \in rollDie : SimLoopRoll(g, p, r)
        /\ UNCHANGED simUnchanged
SimBankStep ==
    \E g \in SimulationIds, p \in {1, 2} : SimBank(g, p) /\ UNCHANGED simUnchanged
SimStoreStep ==
    \E g \in SimulationIds, p \in {1, 2} : SimStore(g, p) /\ UNCHANGED simUnchanged
SimCheckStep ==
    \E g \in SimulationIds, p \in {1, 2} : SimCheck(g, p) /\ UNCHANGED simUnchanged
SimResultStep ==
    \E g \in SimulationIds : SimResult(g) /\ UNCHANGED simUnchanged
SimReturnStep ==
    \E g \in SimulationIds, p \in {1, 2} : SimReturn(g, p) /\ UNCHANGED simUnchanged

\* a call of runSimulation(strategy_1, strategy_2, winning_score) at its start
SimStart(pair) ==
    [strategy_1 |-> pair[1], strategy_2 |-> pair[2], pc |-> "reset_1",
     current_moves |-> <<>>, new_score |-> 0, result |-> <<>>,
     returned_scores |-> <<>>]

\* two calls of runSimulation with the same winning_score are started, each on
\* two strategy objects; the objects decide freely (randomDecision), which
\* covers the decisions of every strategy
SimInit ==
    /\ strat = [id \in InstanceIds |->
                   strategy(IF id \in {1, 3} THEN "strategy_A" ELSE "strategy_B",
                            decisionFunction("randomDecision", <<>>))]
    /\ \E pair \in InstancePairs : sim = <<SimStart(<<1, 2>>), SimStart(pair)>>
    /\ winning_score \in 1..MaxSimWinningScore
    /\ strategy_1 = 1
    /\ strategy_2 = 2
    /\ games = 0
    /\ pc = "concurrent"
    /\ current_moves = <<>>
    /\ roll = 0
    /\ results_list = <<>>
    /\ results = <<>>
    /\ last_step = "none"
    /\ turn_start = 0
    /\ turn_rolls = 0
    /\ reached = <<>>
    /\ decision_call = <<>>
    /\ match_data = <<>>
    /\ unread = {}
    /\ aggregate_results = <<>>
    /\ saved = <<>>
    /\ filename = 0
    /\ current_results = <<>>
    /\ before = <<>>

SimNext ==
    \/ SimResetStep
    \/ SimLoopStep
    \/ SimBankStep
    \/ SimStoreStep
    \/ SimCheckStep
    \/ SimResultStep
    \/ SimReturnStep

SimSpec == SimInit /\ [][SimNext]_vars

(* ----- properties of concurrent calls ----- *)

\* the two calls are given no object in common
Disjoint ==
    {sim[1].strategy_1, sim[1].strategy_2}
       \cap {sim[2].strategy_1, sim[2].strategy_2} = {}

\* call g has returned a winner whose score is at the target and a loser whose
\* score is below it
ProperResult(g) ==
    /\ sim[g].returned_scores[1] >= winning_score
    /\ sim[g].returned_scores[2] < winning_score
    /\ sim[g].result[1].margin > MarginBase - winning_score

\* C21: two calls of runSimulation on disjoint strategy objects, interleaved
\* in any way, each return a winner with a score of at least the target and a
\* loser with a score below it.
C21_DisjointGamesAreIndependent ==
    Disjoint =>
        \A g \in SimulationIds : sim[g].pc = "done" => ProperResult(g)

\* two calls share a strategy object, and one of them has returned a result
\* that is not proper: its margin is that of a loser at or above the target,
\* the other call having overwritten the shared score
C21_Witness ==
    /\ ~Disjoint
    /\ \E g \in SimulationIds :
          /\ sim[g].pc = "done"
          /\ sim[g].returned_scores[2] >= winning_score
          /\ sim[g].result[1].margin <= MarginBase - winning_score

=============================================================================
